---- MODULE Spec2Model ----
(***************************************************************************)
(* Model of package logger (src/unnamed/part_000): a process-wide zap      *)
(* SugaredLogger built from one zapcore.Core per level, each core writing  *)
(* to <Director>/<level>.log.                                              *)
(*                                                                         *)
(* Spec     : one caller using the package API sequentially                *)
(*            (Init, Info/Infof, ..., Fatal/Fatalf).                       *)
(* SpecConc : several goroutines emitting concurrently through one         *)
(*            installed logger, down to the partial writes of File.Write.  *)
(* SpecEnc  : ZapConfig.LevelEncoder applied to every level and style.     *)
(***************************************************************************)
EXTENDS Integers, Sequences, FiniteSets, TLC

VARIABLES
    loopvarPerIteration, \* build: TRUE = Go >= 1.22 (a fresh `level` per iteration)
    dirs,                \* file system: the directories that exist
    files,               \* file system: regular file path -> sequence of bytes (chunks)
    sugaredLogger,       \* the package variable: NilLogger or an installed logger
    ctl,                 \* the process: running, fatalHook, exited, panicked
    lastOp,              \* history: the last API call and what it returned
    inits,               \* history: Director of every successful initLogger, in order
    nInit,               \* history: number of Init calls made
    nEmit,               \* history: number of emit calls made (record ids)
    gpc,                 \* SpecConc: goroutine -> position inside its emit call
    job,                 \* SpecConc: goroutine -> the entry it is writing
    fdLock,              \* SpecConc: file -> goroutine holding the fd write lock, or 0
    enc                  \* SpecEnc: input and output of one LevelEncoder call

vars == <<loopvarPerIteration, dirs, files, sugaredLogger, ctl, lastOp, inits,
          nInit, nEmit, gpc, job, fdLock, enc>>

seqVars  == <<lastOp, inits, nInit>>
concVars == <<gpc, job, fdLock>>

----------------------------------------------------------------------------
(* Bounds of the model *)

MaxInit == 2        \* Init calls per behaviour
MaxEmit == 1        \* emit calls per behaviour
RecordParts == 2    \* write(2) calls File.Write may need for one record
NGoroutines == 2    \* concurrent callers in SpecConc

----------------------------------------------------------------------------
(* zapcore.Level, as used on line 124 *)

DebugLevel  == -1
InfoLevel   == 0
WarnLevel   == 1
ErrorLevel  == 2
DPanicLevel == 3
PanicLevel  == 4
FatalLevel  == 5

\* faulty variant: the list of line 124 without its last element
levelsNoFatal == <<DebugLevel, InfoLevel, WarnLevel, ErrorLevel, DPanicLevel, PanicLevel>>

\* faulty variant: the list of line 124 without DPanicLevel
levelsSix == <<DebugLevel, InfoLevel, WarnLevel, ErrorLevel, PanicLevel, FatalLevel>>

levels == <<DebugLevel, InfoLevel, WarnLevel, ErrorLevel, DPanicLevel, PanicLevel, FatalLevel>>

Range(s) == {s[i] : i \in DOMAIN s}

\* zapcore.Level.String(), which names the files (line 135)
String(l) ==
    CASE l = DebugLevel  -> "debug"
      [] l = InfoLevel   -> "info"
      [] l = WarnLevel   -> "warn"
      [] l = ErrorLevel  -> "error"
      [] l = DPanicLevel -> "dpanic"
      [] l = PanicLevel  -> "panic"
      [] l = FatalLevel  -> "fatal"

\* zapcore.Level.CapitalString(), used by the custom level encoder (line 54)
CapitalString(l) ==
    CASE l = DebugLevel  -> "DEBUG"
      [] l = InfoLevel   -> "INFO"
      [] l = WarnLevel   -> "WARN"
      [] l = ErrorLevel  -> "ERROR"
      [] l = DPanicLevel -> "DPANIC"
      [] l = PanicLevel  -> "PANIC"
      [] l = FatalLevel  -> "FATAL"

Nil == "nil"

\* the zero value of the package variable of line 15
NilLogger == [isNil |-> TRUE, cores |-> <<>>]

----------------------------------------------------------------------------
(* The file system seen through os.Stat, os.Mkdir and os.OpenFile *)

\* a path is the sequence of its components; Root is the working directory
Root == <<>>

\* values of cfg.Director the configuration files of the model carry
Directors == {<<"logs">>, <<"logs", "app">>, <<"var", "app">>, <<"notadir">>,
              <<"notadir", "sub">>}

\* filepath.Join(cfg.Director, filename), line 149
Join(dir, name) == Append(dir, name)

\* level.String()+".log", line 135
LogName(l) == String(l) \o ".log"

LogPath(dir, l) == Join(dir, LogName(l))

\* the directory part of a path, as the kernel resolves it
Dir(path) == SubSeq(path, 1, Len(path) - 1)

IsDir(fs, path)  == path \in fs.dirs
IsFile(fs, path) == path \in DOMAIN fs.files
Exists(fs, path) == IsDir(fs, path) \/ IsFile(fs, path)

\* os.Stat: the error it returns
Stat(fs, path) ==
    IF Exists(fs, path) THEN Nil
    ELSE IF IsDir(fs, Dir(path)) THEN "ENOENT"
    ELSE IF IsFile(fs, Dir(path)) THEN "ENOTDIR"
    ELSE "ENOENT"

\* pathExists, lines 158-167: <<exists, err>>
pathExists(fs, path) ==
    LET err == Stat(fs, path) IN
    IF err = Nil THEN <<TRUE, Nil>>
    ELSE IF err = "ENOENT" THEN <<FALSE, Nil>>
    ELSE <<FALSE, err>>

\* faulty variant: os.MkdirAll, which creates the missing parents too
RECURSIVE MkdirAll(_, _)
MkdirAll(fs, path) ==
    IF IsDir(fs, path) THEN [err |-> Nil, fs |-> fs]
    ELSE IF IsFile(fs, path) THEN [err |-> "ENOTDIR", fs |-> fs]
    ELSE LET up == IF path = Root THEN [err |-> Nil, fs |-> fs] ELSE MkdirAll(fs, Dir(path)) IN
         IF up.err # Nil THEN up
         ELSE [err |-> Nil, fs |-> [up.fs EXCEPT !.dirs = @ \cup {path}]]

\* os.Mkdir(path, os.ModePerm), line 106: one level, never the parents
Mkdir(fs, path) ==
    IF Exists(fs, path) THEN [err |-> "EEXIST", fs |-> fs]
    ELSE IF IsFile(fs, Dir(path)) THEN [err |-> "ENOTDIR", fs |-> fs]
    ELSE IF ~IsDir(fs, Dir(path)) THEN [err |-> "ENOENT", fs |-> fs]
    ELSE [err |-> Nil, fs |-> [fs EXCEPT !.dirs = @ \cup {path}]]

\* faulty variant: O_TRUNC among the flags
OpenedTruncated(fs, path) == <<>>

\* what os.OpenFile leaves in a file it opens: O_APPEND|O_CREATE|O_WRONLY keeps the
\* content of an existing file and creates a missing one empty
OpenedContent(fs, path) == IF IsFile(fs, path) THEN fs.files[path] ELSE <<>>

\* os.OpenFile(path, os.O_APPEND|os.O_CREATE|os.O_WRONLY, 0644), line 150.
\* fault: the open fails for a reason outside the model (EACCES, EMFILE, ...)
OpenFile(fs, path, fault) ==
    IF fault THEN [err |-> "EACCES", fs |-> fs]
    ELSE IF IsDir(fs, path) THEN [err |-> "EISDIR", fs |-> fs]
    ELSE IF IsFile(fs, Dir(path)) THEN [err |-> "ENOTDIR", fs |-> fs]
    ELSE IF ~IsDir(fs, Dir(path)) THEN [err |-> "ENOENT", fs |-> fs]
    ELSE [err |-> Nil,
          fs  |-> [fs EXCEPT !.files =
                     [p \in DOMAIN fs.files \cup {path} |->
                        IF p = path THEN OpenedContent(fs, path) ELSE fs.files[p]]]]

\* getLogWriter, lines 148-155: the WriteSyncer is the *os.File itself
\* (zapcore.AddSync returns a WriteSyncer unchanged), identified by its path
getLogWriter(cfg, filename, fs, fault) ==
    LET filepath == Join(cfg.Director, filename)
        r == OpenFile(fs, filepath, fault)
    IN  [err |-> r.err, fs |-> r.fs, writer |-> IF r.err = Nil THEN filepath ELSE Nil]

----------------------------------------------------------------------------
(* setupCores, lines 123-145 *)

\* The level the closure of lines 139-141 compares with when it is called, for the
\* core built in iteration i. With a per-iteration loop variable (Go >= 1.22) this
\* is levels[i]; with the single loop variable of earlier language versions every
\* closure reads the same variable, which holds the last element once the loop is over.
CapturedLevel(i, perIter) ==
    IF perIter THEN levels[i] ELSE levels[Len(levels)]

\* faulty variant: a failed getLogWriter is skipped and the loop goes on
RECURSIVE SetupLoopSkipFailed(_, _, _, _, _, _, _)
SetupLoopSkipFailed(i, cfg, fs, cores, opened, failAt, perIter) ==
    IF i > Len(levels)
    THEN [err |-> Nil, cores |-> cores, fs |-> fs, opened |-> opened, tries |-> i - 1]
    ELSE LET w == getLogWriter(cfg, LogName(levels[i]), fs, failAt = i) IN
         IF w.err # Nil
         THEN SetupLoopSkipFailed(i + 1, cfg, w.fs, cores, opened, failAt, perIter)
         ELSE SetupLoopSkipFailed(i + 1, cfg, w.fs,
                        Append(cores, [out |-> w.writer, enab |-> CapturedLevel(i, perIter)]),
                        Append(opened, w.writer), failAt, perIter)

\* the loop of lines 134-143 from iteration i on. opened: the writers got so far;
\* the result's tries is the number of getLogWriter calls made
RECURSIVE SetupLoop(_, _, _, _, _, _, _)
SetupLoop(i, cfg, fs, cores, opened, failAt, perIter) ==
    IF i > Len(levels)
    THEN [err |-> Nil, cores |-> cores, fs |-> fs, opened |-> opened, tries |-> i - 1]
    ELSE LET w == getLogWriter(cfg, LogName(levels[i]), fs, failAt = i) IN
         IF w.err # Nil
         THEN [err |-> "failed to create log file", cores |-> <<>>, fs |-> w.fs,
               opened |-> opened, tries |-> i]
         ELSE SetupLoop(i + 1, cfg, w.fs,
                        Append(cores, [out |-> w.writer, enab |-> CapturedLevel(i, perIter)]),
                        Append(opened, w.writer), failAt, perIter)

\* failAt: the iteration whose open is made to fail, 0 for none
setupCores(cfg, fs, failAt, perIter) ==
    SetupLoop(1, cfg, fs, <<>>, <<>>, failAt, perIter)

----------------------------------------------------------------------------
(* initLogger, lines 103-120 *)

\* the logger installed when setupCores returned r: line 117-118
Installed(old, r) == [isNil |-> FALSE, cores |-> r.cores]

\* faulty variant: a failed initLogger resets the package variable
initLoggerClearsOnError(cfg, fs, old, failAt, perIter) ==
    LET ex == pathExists(fs, cfg.Director)
        mk == IF ex[1] THEN [err |-> Nil, fs |-> fs] ELSE Mkdir(fs, cfg.Director)
    IN  IF mk.err # Nil
        THEN [err |-> "failed to create directory", fs |-> mk.fs, logger |-> NilLogger,
              opened |-> <<>>, tries |-> 0, mkdirCalled |-> TRUE]
        ELSE LET r == setupCores(cfg, mk.fs, failAt, perIter) IN
             IF r.err # Nil
             THEN [err |-> r.err, fs |-> r.fs, logger |-> NilLogger,
                   opened |-> r.opened, tries |-> r.tries, mkdirCalled |-> ~ex[1]]
             ELSE [err |-> Nil, fs |-> r.fs, logger |-> Installed(old, r),
                   opened |-> r.opened, tries |-> r.tries, mkdirCalled |-> ~ex[1]]

initLogger(cfg, fs, old, failAt, perIter) ==
    LET ex == pathExists(fs, cfg.Director)
        mk == IF ex[1] THEN [err |-> Nil, fs |-> fs] ELSE Mkdir(fs, cfg.Director)
    IN  IF mk.err # Nil
        THEN [err |-> "failed to create directory", fs |-> mk.fs, logger |-> old,
              opened |-> <<>>, tries |-> 0, mkdirCalled |-> TRUE]
        ELSE LET r == setupCores(cfg, mk.fs, failAt, perIter) IN
             IF r.err # Nil
             THEN [err |-> r.err, fs |-> r.fs, logger |-> old,
                   opened |-> r.opened, tries |-> r.tries, mkdirCalled |-> ~ex[1]]
             ELSE [err |-> Nil, fs |-> r.fs, logger |-> Installed(old, r),
                   opened |-> r.opened, tries |-> r.tries, mkdirCalled |-> ~ex[1]]

\* the configuration files Init may be given: unreadable, a "zap" key that does not
\* unmarshal, or a valid one carrying a Director
ConfigFiles ==
    {[kind |-> "unreadable", Director |-> <<>>], [kind |-> "badzap", Director |-> <<>>]}
    \cup {[kind |-> "ok", Director |-> d] : d \in Directors}

\* Init, lines 87-100
LoggerInit(configFile, fs, old, failAt, perIter) ==
    IF configFile.kind = "unreadable"
    THEN [err |-> "error reading config file", fs |-> fs, logger |-> old,
          opened |-> <<>>, tries |-> 0, mkdirCalled |-> FALSE]
    ELSE IF configFile.kind = "badzap"
    THEN [err |-> "error unmarshalling config to struct", fs |-> fs, logger |-> old,
          opened |-> <<>>, tries |-> 0, mkdirCalled |-> FALSE]
    ELSE initLogger([Director |-> configFile.Director], fs, old, failAt, perIter)

----------------------------------------------------------------------------
(* Emitting through zap: SugaredLogger.log -> Logger.check -> CheckedEntry.Write *)

\* the bytes of one encoded entry, in the pieces File.Write may hand to write(2)
Encode(rec) == [k \in 1..RecordParts |-> [rec |-> rec, part |-> k]]

\* zap.LevelEnablerFunc of lines 139-141
Enabled(core, lvl) == lvl = core.enab

\* zapcore.NewTee(cores...).Check: the cores that will write the entry
CheckedCores(logger, lvl) == SelectSeq(logger.cores, LAMBDA c : Enabled(c, lvl))

\* CheckedEntry.Write: every checked core appends the encoded entry to its file
RECURSIVE WriteCores(_, _, _)
WriteCores(fl, cs, bytes) ==
    IF cs = <<>> THEN fl
    ELSE WriteCores([fl EXCEPT ![Head(cs).out] = @ \o bytes], Tail(cs), bytes)

FS == [dirs |-> dirs, files |-> files]

----------------------------------------------------------------------------
(* Spec: one caller, the package API called in sequence *)

\* lastOp: op and lvl describe the last call (lvl and panicked for an emit); the other
\* fields describe the last Init call: its input and what it returned
NoOp == [op |-> "none", lvl |-> 0, panicked |-> FALSE,
         cfg |-> [kind |-> "", Director |-> <<>>], failAt |-> 0,
         err |-> Nil, opened |-> <<>>, tries |-> 0, mkdirCalled |-> FALSE]

\* at start: ./logs is a directory, ./notadir is a regular file, ./var does not exist
InitFS == [dirs |-> {Root, <<"logs">>}, files |-> [p \in {<<"notadir">>} |-> <<>>]]

Goroutines == 1..NGoroutines

NoJob == [op |-> "none", lvl |-> 0, id |-> 0, todo |-> <<>>, off |-> 0]

Init ==
    /\ loopvarPerIteration \in BOOLEAN
    /\ dirs = InitFS.dirs
    /\ files = InitFS.files
    /\ sugaredLogger = NilLogger
    /\ ctl = "running"
    /\ lastOp = NoOp
    /\ inits = <<>>
    /\ nInit = 0
    /\ nEmit = 0
    /\ gpc = [g \in Goroutines |-> "idle"]
    /\ job = [g \in Goroutines |-> NoJob]
    /\ fdLock = <<>>
    /\ enc = Nil

\* Init(configFile), lines 87-100, with everything initLogger calls
InitCall ==
    /\ ctl = "running"
    /\ nInit < MaxInit
    /\ \E configFile \in ConfigFiles, failAt \in 0..Len(levels) :
         LET r == LoggerInit(configFile, FS, sugaredLogger, failAt, loopvarPerIteration) IN
         /\ dirs' = r.fs.dirs
         /\ files' = r.fs.files
         /\ sugaredLogger' = r.logger
         /\ inits' = IF r.err = Nil THEN Append(inits, configFile.Director) ELSE inits
         /\ lastOp' = [op |-> "Init", lvl |-> 0, panicked |-> FALSE, cfg |-> configFile,
                       failAt |-> failAt, err |-> r.err, opened |-> r.opened,
                       tries |-> r.tries, mkdirCalled |-> r.mkdirCalled]
    /\ nInit' = nInit + 1
    /\ UNCHANGED <<loopvarPerIteration, ctl, nEmit, concVars, enc>>

\* sugaredLogger.<Level>(args...) / <Level>f(template, args...), lines 170-217:
\* a nil sugaredLogger panics inside zap (nil dereference), which the caller may
\* recover from; otherwise the entry goes to every core whose enabler accepts lvl,
\* and a Fatal entry then runs zap's WriteThenFatal hook.
Emit(lvl) ==
    /\ ctl = "running"
    /\ nEmit < MaxEmit
    /\ nEmit' = nEmit + 1
    /\ IF sugaredLogger.isNil
       THEN /\ \E recovered \in BOOLEAN : ctl' = IF recovered THEN "running" ELSE "panicked"
            /\ lastOp' = [lastOp EXCEPT !.op = "Emit", !.lvl = lvl, !.panicked = TRUE]
            /\ UNCHANGED files
       ELSE /\ files' = WriteCores(files, CheckedCores(sugaredLogger, lvl),
                                   Encode([lvl |-> lvl, id |-> nEmit + 1]))
            /\ ctl' = IF lvl = FatalLevel THEN "fatalHook" ELSE "running"
            /\ lastOp' = [lastOp EXCEPT !.op = "Emit", !.lvl = lvl, !.panicked = FALSE]
    /\ UNCHANGED <<loopvarPerIteration, dirs, sugaredLogger, inits, nInit, concVars, enc>>

Info   == Emit(InfoLevel)
Infof  == Emit(InfoLevel)
Error  == Emit(ErrorLevel)
Errorf == Emit(ErrorLevel)
Debug  == Emit(DebugLevel)
Debugf == Emit(DebugLevel)
Warn   == Emit(WarnLevel)
Warnf  == Emit(WarnLevel)
Fatal  == Emit(FatalLevel)
Fatalf == Emit(FatalLevel)

\* zapcore.WriteThenFatal, run by CheckedEntry.Write after the cores wrote: os.Exit(1)
FatalExit ==
    /\ ctl = "fatalHook"
    /\ ctl' = "exited"
    /\ UNCHANGED <<loopvarPerIteration, dirs, files, sugaredLogger, lastOp, inits,
                   nInit, nEmit, concVars, enc>>

Next ==
    \/ InitCall
    \/ Info \/ Infof \/ Error \/ Errorf \/ Debug \/ Debugf
    \/ Warn \/ Warnf \/ Fatal \/ Fatalf
    \/ FatalExit

Spec == Init /\ [][Next]_vars

\* CheckedEntry.Write calls the WriteThenFatal hook right after the cores wrote, and
\* nothing stops a running process from reaching os.Exit
FairSpec == Spec /\ WF_vars(FatalExit)

----------------------------------------------------------------------------
(* SpecConc: goroutines emitting concurrently through one installed logger.
   ioCore.Write encodes the entry into a buffer of its own and calls out.Write
   once; out is the *os.File (no zapcore.Lock around it), whose Write takes the
   descriptor's write lock and repeats write(2) until every byte is out. *)

ConcDir == <<"logs">>

\* the state Init("...") leaves when it succeeds on Director logs
ConcStart == LoggerInit([kind |-> "ok", Director |-> ConcDir], InitFS, NilLogger, 0,
                        loopvarPerIteration)

\* the levels the package API can emit at (lines 170-217)
ApiLevels == {DebugLevel, InfoLevel, WarnLevel, ErrorLevel, FatalLevel}

InitConc ==
    /\ loopvarPerIteration \in BOOLEAN
    /\ dirs = ConcStart.fs.dirs
    /\ files = ConcStart.fs.files
    /\ sugaredLogger = ConcStart.logger
    /\ ctl = "running"
    /\ lastOp = [NoOp EXCEPT !.op = "Init", !.cfg = [kind |-> "ok", Director |-> ConcDir],
                             !.opened = ConcStart.opened, !.tries = ConcStart.tries]
    /\ inits = <<ConcDir>>
    /\ nInit = 1
    /\ nEmit = 0
    /\ gpc = [g \in Goroutines |-> "idle"]
    /\ job = [g \in Goroutines |-> NoJob]
    /\ fdLock = [p \in DOMAIN ConcStart.fs.files |-> 0]
    /\ enc = Nil

\* where a goroutine goes once the cores in todo are written
AfterCores(lvl, todo) ==
    IF todo # <<>> THEN "lock" ELSE IF lvl = FatalLevel THEN "hook" ELSE "returned"

\* goroutine g calls an emit function: Logger.check picks the cores
Call(g) ==
    /\ ctl = "running"
    /\ gpc[g] = "idle"
    /\ \E lvl \in ApiLevels :
         LET todo == CheckedCores(sugaredLogger, lvl) IN
         /\ job' = [job EXCEPT ![g] = [op |-> "Emit", lvl |-> lvl, id |-> nEmit + 1,
                                       todo |-> todo, off |-> 0]]
         /\ gpc' = [gpc EXCEPT ![g] = AfterCores(lvl, todo)]
    /\ nEmit' = nEmit + 1
    /\ UNCHANGED <<loopvarPerIteration, dirs, files, sugaredLogger, ctl, seqVars, fdLock, enc>>

\* may goroutine g take the write lock of file p (poll.FD.writeLock)
CanLock(g, p) == fdLock[p] = 0

\* File.Write, entry: take the descriptor's write lock
Lock(g) ==
    /\ ctl = "running"
    /\ gpc[g] = "lock"
    /\ CanLock(g, Head(job[g].todo).out)
    /\ fdLock' = [fdLock EXCEPT ![Head(job[g].todo).out] = g]
    /\ gpc' = [gpc EXCEPT ![g] = "write"]
    /\ UNCHANGED <<loopvarPerIteration, dirs, files, sugaredLogger, ctl, seqVars, nEmit, job, enc>>

\* File.Write, loop: one write(2) on the O_APPEND descriptor appends the next n
\* pieces of the buffer at the end of the file
WriteChunk(g) ==
    /\ ctl = "running"
    /\ gpc[g] = "write"
    /\ \E n \in 1..(RecordParts - job[g].off) :
         LET p == Head(job[g].todo).out
             bytes == Encode([lvl |-> job[g].lvl, id |-> job[g].id])
         IN  /\ files' = [files EXCEPT ![p] = @ \o SubSeq(bytes, job[g].off + 1, job[g].off + n)]
             /\ job' = [job EXCEPT ![g].off = @ + n]
             /\ gpc' = [gpc EXCEPT ![g] = IF job[g].off + n = RecordParts THEN "unlock" ELSE "write"]
    /\ UNCHANGED <<loopvarPerIteration, dirs, sugaredLogger, ctl, seqVars, nEmit, fdLock, enc>>

\* File.Write, return: release the lock; CheckedEntry.Write goes on to the next core
Unlock(g) ==
    /\ ctl = "running"
    /\ gpc[g] = "unlock"
    /\ fdLock' = [fdLock EXCEPT ![Head(job[g].todo).out] = IF @ = g THEN 0 ELSE @]
    /\ job' = [job EXCEPT ![g].todo = Tail(@), ![g].off = 0]
    /\ gpc' = [gpc EXCEPT ![g] = AfterCores(job[g].lvl, Tail(job[g].todo))]
    /\ UNCHANGED <<loopvarPerIteration, dirs, files, sugaredLogger, ctl, seqVars, nEmit, enc>>

\* zapcore.WriteThenFatal in goroutine g: os.Exit(1) ends every goroutine
Exit(g) ==
    /\ ctl = "running"
    /\ gpc[g] = "hook"
    /\ ctl' = "exited"
    /\ UNCHANGED <<loopvarPerIteration, dirs, files, sugaredLogger, seqVars, nEmit,
                   concVars, enc>>

NextConc == \E g \in Goroutines : Call(g) \/ Lock(g) \/ WriteChunk(g) \/ Unlock(g) \/ Exit(g)

SpecConc == InitConc /\ [][NextConc]_vars

----------------------------------------------------------------------------
(* ZapConfig.LevelEncoder, lines 51-70, and the zapcore encoders it returns *)

\* zapcore's color.Add for the level's colour: ESC[<code>m ... ESC[0m
ColorCode(l) ==
    CASE l = DebugLevel -> "35"
      [] l = InfoLevel  -> "34"
      [] l = WarnLevel  -> "33"
      [] OTHER          -> "31"

Colored(l, text) == "ESC[" \o ColorCode(l) \o "m" \o text \o "ESC[0m"

LowercaseLevelEncoder(l)      == String(l)
CapitalLevelEncoder(l)        == CapitalString(l)
LowercaseColorLevelEncoder(l) == Colored(l, String(l))
CapitalColorLevelEncoder(l)   == Colored(l, CapitalString(l))

\* faulty variant: the switch on EncodeLevel comes first, the custom encoder is its default
LevelEncoderStyleFirst(c, l) ==
    CASE c.EncodeLevel = "lowercase"      -> LowercaseLevelEncoder(l)
      [] c.EncodeLevel = "capital"        -> CapitalLevelEncoder(l)
      [] c.EncodeLevel = "lowercaseColor" -> LowercaseColorLevelEncoder(l)
      [] c.EncodeLevel = "capitalColor"   -> CapitalColorLevelEncoder(l)
      [] OTHER -> IF c.CustomLevelEncoder THEN "[" \o CapitalString(l) \o "]"
                  ELSE CapitalLevelEncoder(l)

\* the string the encoder returned by c.LevelEncoder() appends for level l
LevelEncoder(c, l) ==
    IF c.CustomLevelEncoder THEN "[" \o CapitalString(l) \o "]"
    ELSE CASE c.EncodeLevel = "lowercase"      -> LowercaseLevelEncoder(l)
           [] c.EncodeLevel = "capital"        -> CapitalLevelEncoder(l)
           [] c.EncodeLevel = "lowercaseColor" -> LowercaseColorLevelEncoder(l)
           [] c.EncodeLevel = "capitalColor"   -> CapitalColorLevelEncoder(l)
           [] OTHER                            -> CapitalLevelEncoder(l)

\* values of encode-level: the four named styles, absent, and two unrecognised ones
Styles == {"lowercase", "capital", "lowercaseColor", "capitalColor", "", "Capital", "color"}

EncInputs == [CustomLevelEncoder : BOOLEAN, EncodeLevel : Styles, level : Range(levels)]

InitEnc ==
    /\ loopvarPerIteration = TRUE
    /\ dirs = InitFS.dirs
    /\ files = InitFS.files
    /\ sugaredLogger = NilLogger
    /\ ctl = "running"
    /\ lastOp = NoOp
    /\ inits = <<>>
    /\ nInit = 0
    /\ nEmit = 0
    /\ gpc = [g \in Goroutines |-> "idle"]
    /\ job = [g \in Goroutines |-> NoJob]
    /\ fdLock = <<>>
    /\ \E in \in EncInputs : enc = [in |-> in, done |-> FALSE, out |-> ""]

\* the encoder is called on an entry's level
EncodeLevelCall ==
    /\ ~enc.done
    /\ enc' = [enc EXCEPT !.done = TRUE,
                          !.out = LevelEncoder([CustomLevelEncoder |-> enc.in.CustomLevelEncoder,
                                                EncodeLevel |-> enc.in.EncodeLevel],
                                               enc.in.level)]
    /\ UNCHANGED <<loopvarPerIteration, dirs, files, sugaredLogger, ctl, seqVars, nEmit, concVars>>

NextEnc == EncodeLevelCall

SpecEnc == InitEnc /\ [][NextEnc]_vars

----------------------------------------------------------------------------
(* Vocabulary of the properties *)

IsPrefix(a, b) == Len(a) <= Len(b) /\ SubSeq(b, 1, Len(a)) = a

Content(fl, p) == IF p \in DOMAIN fl THEN fl[p] ELSE <<>>

\* the regular files directly inside directory d
FilesIn(fl, d) == {p \in DOMAIN fl : Dir(p) = d}

\* this step is an emit call / an Init call
EmitStep == nEmit' = nEmit + 1
InitStep == nInit' = nInit + 1

\* the entry the emit call of this step hands to zap, and its bytes
StepRec == [lvl |-> lastOp'.lvl, id |-> nEmit']
StepBytes == Encode(StepRec)

\* Director of the logger now installed (the last successful initLogger)
CurDir == inits[Len(inits)]

\* file p received exactly the bytes of this step's entry, once
Appended(p) == p \in DOMAIN files' /\ files'[p] = Content(files, p) \o StepBytes

LastInitFailed == nInit > 0 /\ lastOp.err # Nil

----------------------------------------------------------------------------
(* C1: strict per-level partitioning. After a successful initialize, an emit at
   severity S appends its record to <S-name>.log of the configured directory and
   changes no other file. *)
C1_StrictPartitioning ==
    [][(EmitStep /\ ~sugaredLogger.isNil) =>
          /\ Appended(LogPath(CurDir, lastOp'.lvl))
          /\ \A p \in DOMAIN files' :
                p # LogPath(CurDir, lastOp'.lvl) => files'[p] = Content(files, p)]_vars

(* C2: re-initialization replaces the global instance. After a successful initialize
   with D1 and a later successful one with D2 # D1, every emit appends its record to
   a file under D2 and leaves every file under D1 unchanged. *)
C2_ReinitReplaces ==
    [][(EmitStep /\ Len(inits) >= 2 /\ inits[Len(inits) - 1] # CurDir) =>
          /\ \E p \in FilesIn(files', CurDir) : Appended(p)
          /\ \A p \in FilesIn(files', inits[Len(inits) - 1]) :
                files'[p] = Content(files, p)]_vars

(* C4: Fatal and Fatalf on an initialized logger append the record to fatal.log
   before the process terminates, the process terminates, and the call never
   returns: (a) the call appends the record and is then inside zap's terminal hook,
   (b) from the hook the only way on is process exit, (c) a process that exited
   through the hook has the record at the end of fatal.log, (d) the hook is
   always followed by the exit. *)
C4_FatalWritesThenExits ==
    /\ [][(EmitStep /\ ~sugaredLogger.isNil /\ lastOp'.lvl = FatalLevel) =>
             /\ Appended(LogPath(CurDir, FatalLevel))
             /\ ctl' = "fatalHook"]_vars
    /\ [][ctl = "fatalHook" => (ctl' = "exited" /\ files' = files)]_vars
    /\ [](ctl = "exited" =>
             /\ lastOp.lvl = FatalLevel
             /\ LogPath(CurDir, FatalLevel) \in DOMAIN files
             /\ LET c == files[LogPath(CurDir, FatalLevel)] IN
                Len(c) >= RecordParts /\
                SubSeq(c, Len(c) - RecordParts + 1, Len(c)) =
                    Encode([lvl |-> FatalLevel, id |-> nEmit]))
    /\ (ctl = "fatalHook" ~> ctl = "exited")

C4_Witness ==
    /\ ctl = "exited"
    /\ ~sugaredLogger.isNil
    /\ Content(files, LogPath(CurDir, FatalLevel)) # <<>>

(* C5, as stated: after an initialize call returned an error, no emit call writes
   a record to any file until a later initialize succeeds. *)
C5_FailedInitNoLogger ==
    [][(EmitStep /\ LastInitFailed) => files' = files]_vars

(* C5, amended: a failed initialize installs nothing and removes nothing. When no
   initialize succeeded before it, sugaredLogger is still nil and an emit call
   panics without writing; when one did, that logger stays installed and an emit
   call changes only files of that logger's directory. *)
C5_FailedInitKeepsPrevious ==
    [][(EmitStep /\ LastInitFailed) =>
          IF inits = <<>>
          THEN sugaredLogger.isNil /\ lastOp'.panicked /\ files' = files
          ELSE /\ ~sugaredLogger.isNil
               /\ \A p \in DOMAIN files' :
                     files'[p] # Content(files, p) => Dir(p) = CurDir]_vars

C5_Witness ==
    /\ lastOp.op = "Emit"
    /\ lastOp.panicked
    /\ lastOp.err = "failed to create log file"
    /\ ctl = "running"

(* C6, as stated: after a successful initialize on a directory that held no files,
   the directory holds exactly one file per value of the six-value enumeration
   {debug, info, warn, error, panic, fatal} and no other file. *)
SixNames == {"debug.log", "info.log", "warn.log", "error.log", "panic.log", "fatal.log"}

C6_SixFiles ==
    [][(InitStep /\ lastOp'.err = Nil /\ FilesIn(files, lastOp'.cfg.Director) = {}) =>
          FilesIn(files', lastOp'.cfg.Director) =
              {Join(lastOp'.cfg.Director, n) : n \in SixNames}]_vars

(* C6, amended: the enumeration has seven values (zap's DPanic and Panic levels are
   two of them). After a successful initialize on a directory that held no files the
   directory holds exactly debug.log, info.log, warn.log, error.log, dpanic.log,
   panic.log and fatal.log; the sinks opened by one successful initialize are seven,
   one per level, no two on the same file. *)
SevenNames == SixNames \cup {"dpanic.log"}

C6_SevenFiles ==
    [][(InitStep /\ lastOp'.err = Nil) =>
          /\ FilesIn(files, lastOp'.cfg.Director) = {} =>
                FilesIn(files', lastOp'.cfg.Director) =
                    {Join(lastOp'.cfg.Director, n) : n \in SevenNames}
          /\ Len(lastOp'.opened) = 7
          /\ Range(lastOp'.opened) = {Join(lastOp'.cfg.Director, n) : n \in SevenNames}
          /\ Len(sugaredLogger'.cores) = 7
          /\ \A i, j \in 1..7 :
                sugaredLogger'.cores[i].out = sugaredLogger'.cores[j].out => i = j]_vars

C6_Witness ==
    /\ lastOp.op = "Init"
    /\ lastOp.err = Nil
    /\ lastOp.cfg.Director = <<"logs", "app">>
    /\ Cardinality(FilesIn(files, <<"logs", "app">>)) = 7

(* C7: directory creation is single-level. For an initialize that reaches
   initLogger with Director d: if d does not exist and its parent is a directory,
   exactly d is created, and the call succeeds when every sink then opens; if the
   parent is missing too, no directory is created, no sink is opened, no logger is
   installed and an error is returned; if d exists, Mkdir is not called. *)
C7_SingleLevelMkdir ==
    [][(InitStep /\ lastOp'.cfg.kind = "ok") =>
          LET d == lastOp'.cfg.Director IN
          IF Exists(FS, d)
          THEN dirs' = dirs /\ ~lastOp'.mkdirCalled
          ELSE IF IsDir(FS, Dir(d))
          THEN /\ dirs' = dirs \cup {d}
               /\ lastOp'.failAt = 0 => (lastOp'.err = Nil /\ sugaredLogger' # sugaredLogger)
          ELSE /\ dirs' = dirs
               /\ files' = files
               /\ lastOp'.opened = <<>> /\ lastOp'.tries = 0
               /\ sugaredLogger' = sugaredLogger
               /\ lastOp'.err # Nil]_vars

C7_Witness ==
    /\ lastOp.op = "Init"
    /\ lastOp.cfg.Director = <<"logs", "app">>
    /\ <<"logs", "app">> \in dirs
    /\ lastOp.mkdirCalled
    /\ lastOp.err = Nil
    /\ nInit = 1

(* C8: append, never truncate. Every step, Init and emit alike, leaves every
   existing file in place with its former content as a prefix of the new one. *)
C8_AppendOnly ==
    [][\A p \in DOMAIN files :
          p \in DOMAIN files' /\ IsPrefix(files[p], files'[p])]_vars

C8_Witness ==
    /\ lastOp.op = "Init"
    /\ lastOp.err = Nil
    /\ nEmit > 0
    /\ \E p \in Range(lastOp.opened) : files[p] # <<>>

(* C10: all-or-nothing sink setup. When the open of the k-th sink fails, setupCores
   has opened exactly the first k-1 sinks and makes no further getLogWriter call,
   the error is returned, and sugaredLogger is what it was before the call. *)
C10_AllOrNothing ==
    [][(InitStep /\ lastOp'.err = "failed to create log file") =>
          LET d == lastOp'.cfg.Director
              k == lastOp'.tries
          IN  /\ k \in 1..Len(levels)
              /\ lastOp'.failAt > 0 /\ IsDir([dirs |-> dirs', files |-> files'], d)
                    => k = lastOp'.failAt
              /\ lastOp'.opened = [i \in 1..(k - 1) |-> LogPath(d, levels[i])]
              /\ DOMAIN files' = DOMAIN files \cup Range(lastOp'.opened)
              /\ sugaredLogger' = sugaredLogger]_vars
    /\ [][(InitStep /\ lastOp'.failAt > 0 /\ lastOp'.cfg.kind = "ok") =>
             lastOp'.err # Nil]_vars

C10_Witness ==
    /\ lastOp.op = "Init"
    /\ lastOp.err = "failed to create log file"
    /\ lastOp.tries = 3
    /\ Len(lastOp.opened) = 2
    /\ ~sugaredLogger.isNil
    /\ inits = << <<"logs">> >>
    /\ lastOp.cfg.Director = <<"logs", "app">>

(* C3: concurrent emit. Once N concurrent emit calls at one severity have returned,
   that severity's file holds exactly their N records, each complete and with its
   bytes contiguous. *)
WellFormed(c) ==
    /\ Len(c) % RecordParts = 0
    /\ \A i \in 1..Len(c) :
          LET first == i - ((i - 1) % RecordParts) IN
          c[i] = [rec |-> c[first].rec, part |-> ((i - 1) % RecordParts) + 1]

AllReturned == \A g \in Goroutines : gpc[g] = "returned"

C3_ConcurrentEmit ==
    AllReturned =>
        \A S \in ApiLevels :
            LET c == files[LogPath(ConcDir, S)]
                callers == {g \in Goroutines : job[g].lvl = S}
            IN  /\ WellFormed(c)
                /\ Len(c) = RecordParts * Cardinality(callers)
                /\ \A g \in callers :
                      \E i \in 1..Len(c) : c[i] = [rec |-> [lvl |-> S, id |-> job[g].id], part |-> 1]

(* C9: level-text rendering. With the custom-level-encoder flag set the token is
   '[' + the upper-case level name + ']' whatever the style; without it the token
   follows the named style (lowercase, capital, lowercaseColor, capitalColor), and
   an absent or unrecognised style gives the upper-case name. *)
UpperName ==
    [l \in Range(levels) |->
        CASE l = -1 -> "DEBUG" [] l = 0 -> "INFO" [] l = 1 -> "WARN" [] l = 2 -> "ERROR"
          [] l = 3  -> "DPANIC" [] l = 4 -> "PANIC" [] l = 5 -> "FATAL"]

LowerName ==
    [l \in Range(levels) |->
        CASE l = -1 -> "debug" [] l = 0 -> "info" [] l = 1 -> "warn" [] l = 2 -> "error"
          [] l = 3  -> "dpanic" [] l = 4 -> "panic" [] l = 5 -> "fatal"]

InColor(l, text) ==
    "ESC[" \o (CASE l = -1 -> "35" [] l = 0 -> "34" [] l = 1 -> "33" [] OTHER -> "31")
           \o "m" \o text \o "ESC[0m"

C9_LevelText ==
    enc.done =>
        LET l == enc.in.level
            style == enc.in.EncodeLevel
        IN  IF enc.in.CustomLevelEncoder THEN enc.out = "[" \o UpperName[l] \o "]"
            ELSE CASE style = "lowercase"      -> enc.out = LowerName[l]
                   [] style = "capital"        -> enc.out = UpperName[l]
                   [] style = "lowercaseColor" -> enc.out = InColor(l, LowerName[l])
                   [] style = "capitalColor"   -> enc.out = InColor(l, UpperName[l])
                   [] OTHER                    -> enc.out = UpperName[l]

C9_Witness ==
    /\ enc.done
    /\ enc.in.CustomLevelEncoder
    /\ enc.in.EncodeLevel = "lowercaseColor"
    /\ enc.in.level = 1
    /\ enc.out = "[WARN]"

====
